---- MODULE Spec2Model ----
(***************************************************************************)
(* A model of bot.py: the scraper (scrape_lego_news), the merge cycle      *)
(* (auto_scrape_task, started by the job queue and by /scrape), and the    *)
(* calendar exports (create_ics_file, export_event, export_all_events).    *)
(*                                                                         *)
(* Python str values that the code inspects character by character are     *)
(* sequences of one-character strings; a dict is a sequence of             *)
(* [key, value] entries in insertion order.                                *)
(***************************************************************************)
EXTENDS Integers, Sequences, FiniteSets, TLC

VARIABLES
    events_file,      \* contents of EVENTS_FILE: the persisted catalog (a dict)
    pc,               \* per invocation: where the coroutine is suspended
    all_new_events,   \* per invocation: the list scrape_lego_news returned
    existing_events,  \* per invocation: the dict loaded at line 157, mutated by the loop
    existing_titles,  \* per invocation: the title set built at line 158
    next_index,       \* per invocation: index of the next candidate of the for loop
    new_count,        \* per invocation: new_count of line 160
    broadcasts,       \* per invocation: the events passed to broadcast_new_event this cycle
    saves,            \* number of save_data(EVENTS_FILE, ..) calls so far
    sent,             \* every notification text built so far, as [id, title]
    reply,            \* the catalog size manual_scrape reported last
    clock,            \* number of cycles started so far; stands for datetime.now()
    page,             \* the HTTP response handed to the parser on its own
    scraped,          \* what scrape_lego_news returned for page
    export_reply,     \* what the last export handler sent back
    fetched           \* how the last request of line 82 ended: "ok" or "failed"

vars == <<events_file, pc, all_new_events, existing_events, existing_titles,
          next_index, new_count, broadcasts, saves, sent, reply, clock,
          page, scraped, export_reply, fetched>>

-----------------------------------------------------------------------------
(* Bounds of the model.                                                    *)

\* Cycles (scheduled or manual) started in one behaviour.
MaxCycles == 2

\* Article blocks of a page handed to the parser on its own.
MaxPageLen == 6

\* Entries of a pre-existing events.json handed to the exports.
MaxStored == 2

-----------------------------------------------------------------------------
(* Text.                                                                   *)

\* body applied to the value of v, with v evaluated once.
Let(v, body(_)) == CHOOSE r \in {body(x) : x \in {v}} : TRUE

LowerOf ==
    [A |-> "a", B |-> "b", C |-> "c", D |-> "d", E |-> "e", F |-> "f", G |-> "g",
     H |-> "h", I |-> "i", J |-> "j", K |-> "k", L |-> "l", M |-> "m", N |-> "n",
     O |-> "o", P |-> "p", Q |-> "q", R |-> "r", S |-> "s", T |-> "t", U |-> "u",
     V |-> "v", W |-> "w", X |-> "x", Y |-> "y", Z |-> "z"]

Digits == {"0","1","2","3","4","5","6","7","8","9"}

\* str.lower() of one character.
LowerChar(c) == IF c \in DOMAIN LowerOf THEN LowerOf[c] ELSE c

\* str.lower()
lower(s) == [i \in 1..Len(s) |-> LowerChar(s[i])] \o <<>>

\* Python's `sub in s` on str.
Contains(sub, s) ==
    \E u \in {sub} : \E t \in {s} :
        \E i \in 0..(Len(t) - Len(u)) : SubSeq(t, i + 1, i + Len(u)) = u

IsDigit(c) == c \in Digits

IsSpace(c) == c = " "

\* The length of the run of whitespace of s that starts at position i.
RECURSIVE SpacesFrom(_, _)
SpacesFrom(s, i) ==
    IF i <= Len(s) /\ IsSpace(s[i]) THEN 1 + SpacesFrom(s, i + 1) ELSE 0

Free == <<"f","r","e","e">>
Lego == <<"l","e","g","o">>
Smyths == <<"s","m","y","t","h","s">>
JohnLewis == <<"j","o","h","n"," ","l","e","w","i","s">>
TBA == <<"T","B","A">>

-----------------------------------------------------------------------------
(* scrape_lego_news: the per-article rules.                                *)

\* The month names of the pattern of line 101, lower-cased (re.IGNORECASE).
MonthNames == <<
    <<"j","a","n","u","a","r","y">>,
    <<"f","e","b","r","u","a","r","y">>,
    <<"m","a","r","c","h">>,
    <<"a","p","r","i","l">>,
    <<"m","a","y">>,
    <<"j","u","n","e">>,
    <<"j","u","l","y">>,
    <<"a","u","g","u","s","t">>,
    <<"s","e","p","t","e","m","b","e","r">>,
    <<"o","c","t","o","b","e","r">>,
    <<"n","o","v","e","m","b","e","r">>,
    <<"d","e","c","e","m","b","e","r">> >>

\* str(datetime.now().year) at the time of the scrape.
current_year == <<"2","0","2","6">>

\* The length of the month name that s, lower-cased as low, holds at
\* position k; 0 if none. No month name is a prefix of another.
MonthLenAt(low, k) ==
    LET hits == {m \in 1..12 :
                    /\ k + Len(MonthNames[m]) - 1 <= Len(low)
                    /\ SubSeq(low, k, k + Len(MonthNames[m]) - 1) = MonthNames[m]}
    IN IF hits = {} THEN 0 ELSE Len(MonthNames[CHOOSE m \in hits : TRUE])

\* The position after the day when (\d{1,2})\s+ matches s at position i, else 0.
\* \d{1,2} is greedy, and with one digit taken the next character must be
\* whitespace: the day has two digits exactly when the second is a digit.
AfterDay(s, i) ==
    IF ~ IsDigit(s[i]) THEN 0
    ELSE IF i + 1 <= Len(s) /\ IsDigit(s[i + 1]) THEN i + 2 ELSE i + 1

\* The pattern (\d{1,2})\s+(<month>)\s*(\d{4})? matches s at position i.
MatchesAt(s, low, i) ==
    \E j \in {AfterDay(s, i)} :
        /\ j # 0
        /\ \E sp \in {SpacesFrom(s, j)} : sp >= 1 /\ MonthLenAt(low, j + sp) # 0

\* f"{year}-{month}-{day}" (line 108) for the match at position i: the groups
\* are the matched substrings themselves; \s*(\d{4})? takes the year when four
\* digits follow the month and any whitespace.
DateOfMatch(s, low, i) ==
    Let(AfterDay(s, i), LAMBDA j :
    Let(j + SpacesFrom(s, j), LAMBDA k :
    Let(k + MonthLenAt(low, k), LAMBDA e :
    Let(e + SpacesFrom(s, e), LAMBDA q :
        (IF q + 3 <= Len(s) /\ \A d \in 0..3 : IsDigit(s[q + d])
         THEN SubSeq(s, q, q + 3)
         ELSE current_year)
        \o <<"-">> \o SubSeq(s, k, e - 1) \o <<"-">> \o SubSeq(s, i, j - 1)))))

\* Lines 101-108 with the month written as a number, the day zero-padded.
event_date_numeric(title) ==
    Let(lower(title), LAMBDA low :
        IF {i \in 1..Len(title) : MatchesAt(title, low, i)} = {} THEN <<>>
        ELSE <<"2","0","2","5","-","1","2","-","0","5">>)

\* Lines 101-108: re.search takes the leftmost match; None is <<>> here.
event_date(title) ==
    Let(lower(title), LAMBDA low :
    Let({i \in 1..Len(title) : MatchesAt(title, low, i)}, LAMBDA starts :
        IF starts = {} THEN <<>>
        ELSE DateOfMatch(title, low, CHOOSE i \in starts : \A n \in starts : i <= n)))

cities == << <<"L","o","n","d","o","n">>,
             <<"M","a","n","c","h","e","s","t","e","r">>,
             <<"B","i","r","m","i","n","g","h","a","m">>,
             <<"L","i","v","e","r","p","o","o","l">>,
             <<"G","l","a","s","g","o","w">>,
             <<"L","e","e","d","s">>,
             <<"E","d","i","n","b","u","r","g","h">> >>

\* Lines 111-118.
store(title) ==
    Let(lower(title), LAMBDA low :
        IF Contains(Smyths, low) THEN "Smyths Toys"
        ELSE IF Contains(JohnLewis, low) THEN "John Lewis"
        ELSE "LEGO Store")

\* Lines 112-125 with the city scan left out of the Smyths branch.
location_store_first(title) ==
    Let(lower(title), LAMBDA low :
    Let({c \in 1..Len(cities) : Contains(lower(cities[c]), low)}, LAMBDA found :
        IF Contains(Smyths, low)
        THEN <<"U","K"," ","S","m","y","t","h","s"," ","S","t","o","r","e","s">>
        ELSE IF found # {}
             THEN cities[CHOOSE c \in found : \A n \in found : c <= n]
             ELSE <<"U","K">>))

\* Lines 112-125: the label of the store branch, overridden by the first city
\* of the list found in the title.
location(title) ==
    Let(lower(title), LAMBDA low :
    Let({c \in 1..Len(cities) : Contains(lower(cities[c]), low)}, LAMBDA found :
        IF found # {}
        THEN cities[CHOOSE c \in found : \A n \in found : c <= n]
        ELSE IF Contains(Smyths, low)
             THEN <<"U","K"," ","S","m","y","t","h","s"," ","S","t","o","r","e","s">>
             ELSE <<"U","K">>))

\* The filter of line 97 with "or" in place of "and".
IsRelevant_either(title) ==
    \E low \in {lower(title)} : Contains(Free, low) \/ Contains(Lego, low)

\* Line 97: the article is skipped unless 'free' and 'lego' are both in
\* title.lower().
IsRelevant(title) ==
    \E low \in {lower(title)} : Contains(Free, low) /\ Contains(Lego, low)

\* An article block: its h2 texts, its h3 texts and its <a> elements, each
\* link with or without an href attribute.
\* Line 91: article.find('h2') or article.find('h3').
HasTitleElem(article) == Len(article.h2) > 0 \/ Len(article.h3) > 0

title_elem(article) ==
    IF Len(article.h2) > 0 THEN article.h2[1] ELSE article.h3[1]

\* Line 135: article.find('a')['href'] raises KeyError when the first link
\* has no href attribute.
UrlRaises(article) == Len(article.a) > 0 /\ ~ article.a[1].has_href

url(article) == IF Len(article.a) > 0 THEN article.a[1].href ELSE ""

\* Lines 127-136: the dict appended for an article that got this far.
Candidate(article) ==
    Let(title_elem(article), LAMBDA title :
    Let(event_date(title), LAMBDA date :
        [title        |-> title,
         location     |-> location(title),
         date         |-> IF date # <<>> THEN date ELSE TBA,
         date_display |-> IF date # <<>> THEN date ELSE <<"pending">>,
         store        |-> store(title),
         description  |-> "see link",
         source       |-> "auto_scrape",
         url          |-> url(article)]))

\* Lines 90-140, one iteration of the for loop: the events list after the article.
ParseArticle(events, article) ==
    IF ~ HasTitleElem(article) THEN events                      \* line 93
    ELSE IF ~ IsRelevant(title_elem(article)) THEN events       \* line 98
    ELSE IF UrlRaises(article) THEN events                      \* lines 138-140
    ELSE Append(events, Candidate(article))

\* Line 87: soup.find_all('article', limit=5).
ArticleLimit == 5

\* find_all without its limit.
find_all_articles_unlimited(body) == body

find_all_articles(body) ==
    SubSeq(body, 1, IF Len(body) < ArticleLimit THEN Len(body) ELSE ArticleLimit)

RECURSIVE ParseArticles(_, _)
ParseArticles(events, articles) ==
    IF articles = <<>> THEN events
    ELSE ParseArticles(ParseArticle(events, Head(articles)), Tail(articles))

\* The parser without the status test of line 83.
scrape_lego_news_any_status(response) ==
    IF response.raises # "none" THEN <<>>
    ELSE ParseArticles(<<>>, find_all_articles(response.body))

\* Lines 72-145. A response either raises (timeout, transport error) or
\* carries a status and a body; anything raised is caught at line 142.
scrape_lego_news(response) ==
    IF response.raises # "none" THEN <<>>
    ELSE IF response.status = 200
         THEN ParseArticles(<<>>, find_all_articles(response.body))
         ELSE <<>>

-----------------------------------------------------------------------------
(* dict, and the two data files.                                           *)

EmptyDict == <<>>

Keys(d) == {d[i].key : i \in 1..Len(d)}

Values(d) == {d[i].value : i \in 1..Len(d)}

Get(d, k) == d[CHOOSE i \in 1..Len(d) : d[i].key = k].value

\* d[k] = v: an existing key keeps its place, a new key goes last.
Put(d, k, v) ==
    IF k \in Keys(d)
    THEN [i \in 1..Len(d) |-> IF d[i].key = k THEN [key |-> k, value |-> v] ELSE d[i]]
    ELSE Append(d, [key |-> k, value |-> v])

\* Lines 24-30. EVENTS_FILE exists from start-up on (lines 426-427).
load_data(file) == file

\* Lines 32-35: the whole document replaces the file's contents.
save_data(file, data) == data

-----------------------------------------------------------------------------
(* auto_scrape_task: the dedup loop.                                       *)

\* Line 163: f"auto_{len(existing_events) + new_count + 1}", with
\* existing_events the dict the loop is adding to.
auto_id(events, count) == <<"auto_", Len(events) + count + 1>>

\* Lines 164-165: the candidate dict with its id and created_at set.
WithId(event, id, now) ==
    [title        |-> event.title,
     location     |-> event.location,
     date         |-> event.date,
     date_display |-> event.date_display,
     store        |-> event.store,
     description  |-> event.description,
     source       |-> event.source,
     url          |-> event.url,
     id           |-> id,
     created_at   |-> now]

\* Line 158.
titles_of(events) == {e.title : e \in Values(events)}

\* Line 162: the candidate is new to the catalog.
IsNew(event, titles) == event.title \notin titles

\* The loop of lines 161-170 from candidate st.next_index up to its next
\* suspension: inside broadcast_new_event for the event just inserted
\* (awaiting = TRUE), or past the last candidate (awaiting = FALSE).
RECURSIVE run_loop(_, _, _, _)
run_loop(st, candidates, titles, now) ==
    IF st.next_index > Len(candidates)
    THEN [st EXCEPT !.awaiting = FALSE]
    ELSE LET event == candidates[st.next_index]
         IN IF ~ IsNew(event, titles)
            THEN run_loop([st EXCEPT !.next_index = @ + 1], candidates, titles, now)
            ELSE LET id == auto_id(st.existing_events, st.new_count)
                     ev == WithId(event, id, now)
                 IN [st EXCEPT !.existing_events = Put(@, id, ev),
                               !.broadcasts = Append(@, ev),
                               !.awaiting = TRUE]

\* Lines 169-170 and the step to the next candidate, once the broadcast is over.
after_broadcast(st) ==
    [st EXCEPT !.new_count = @ + 1, !.next_index = @ + 1, !.awaiting = FALSE]

\* The whole loop, run without any other coroutine in between.
RECURSIVE merge(_, _, _, _)
merge(st, candidates, titles, now) ==
    LET s1 == run_loop(st, candidates, titles, now)
    IN IF s1.awaiting
       THEN merge(after_broadcast(s1), candidates, titles, now)
       ELSE s1

\* The loop state right after lines 157-160.
loop_start(catalog) ==
    [existing_events |-> catalog, next_index |-> 1, new_count |-> 0,
     broadcasts |-> <<>>, awaiting |-> FALSE]

\* Line 172 with ">=" in place of ">".
SaveNeeded_always(count) == count >= 0

\* Line 172: the catalog is written when the loop has added something.
SaveNeeded(count) == count > 0

\* Lines 157-173 on a catalog: what is in the file when the cycle is over.
merge_cycle(catalog, candidates, now) ==
    LET st == merge(loop_start(catalog), candidates, titles_of(catalog), now)
    IN [catalog |-> IF SaveNeeded(st.new_count) THEN st.existing_events ELSE catalog,
        added   |-> st.broadcasts]

\* Lines 375-387: what the notification says of the event.
notification(ev) == [id |-> ev.id, title |-> ev.title]

-----------------------------------------------------------------------------
(* What the news site serves.                                              *)

Article(h2, h3, a) == [h2 |-> h2, h3 |-> h3, a |-> a]

Link(href) == [has_href |-> TRUE, href |-> href]

BareLink == [has_href |-> FALSE, href |-> ""]

T_FreeLondon == <<"F","r","e","e"," ","L","E","G","O"," ","s","e","t"," ","5"," ","D","e","c","e","m","b","e","r"," ","i","n"," ","L","o","n","d","o","n">>
T_FreeSmyths == <<"F","R","E","E"," ","L","e","g","o"," ","g","i","f","t"," ","a","t"," ","S","m","y","t","h","s">>
T_FreeJohnLewis == <<"f","r","e","e"," ","l","e","g","o"," ","a","t"," ","J","o","h","n"," ","L","e","w","i","s"," ","L","e","e","d","s"," ","1","2"," ","m","a","y"," ","2","0","2","5">>
T_Giveaway == <<"L","E","G","O"," ","m","i","n","i","f","i","g","u","r","e"," ","g","i","v","e","a","w","a","y">>
T_FreeGift == <<"F","r","e","e"," ","g","i","f","t"," ","b","a","g">>
T_FreePolybag == <<"F","r","e","e"," ","L","E","G","O"," ","p","o","l","y","b","a","g">>

\* Articles of the news site: three that announce a free LEGO activity and
\* one that does not.
CycleArticles ==
    { Article(<<T_FreeLondon>>, <<>>, <<Link("/london")>>),
      Article(<<T_FreeSmyths>>, <<>>, <<Link("/smyths")>>),
      Article(<<T_FreeJohnLewis>>, <<>>, <<>>),
      Article(<<T_Giveaway>>, <<>>, <<Link("/giveaway")>>) }

\* The pages a cycle may be served: none, one or two of the articles, in
\* any order, the same one twice included.
CyclePages ==
    {<<>>} \cup {<<a>> : a \in CycleArticles}
           \cup {<<a, b>> : a \in CycleArticles, b \in CycleArticles}

SeqsUpTo(S, n) == UNION {[1..k -> S] : k \in 0..n}

Respond(status, body) == [raises |-> "none", status |-> status, body |-> body]

Raise(what) == [raises |-> what, status |-> 0, body |-> <<>>]

ResponsesOver(pages) ==
    {Respond(s, b) : s \in {200, 503}, b \in pages}
        \cup {Raise("TimeoutError"), Raise("ClientConnectionError")}

CycleResponses == ResponsesOver(CyclePages)

\* scrape_lego_news on each response the site may give a cycle.
CycleScrape == [response \in CycleResponses |-> scrape_lego_news(response)]

-----------------------------------------------------------------------------
(* The invocations of auto_scrape_task: the repeating job of line 454 and  *)
(* the /scrape handler. Each is a coroutine on the one event loop; it      *)
(* gives way to the other only where it awaits.                            *)

Invocations == {"job", "manual"}

LoopStateOf(p) ==
    [existing_events |-> existing_events[p], next_index |-> next_index[p],
     new_count |-> new_count[p], broadcasts |-> broadcasts[p], awaiting |-> FALSE]

\* Lines 330-333: manual_scrape reports the size of the catalog on file.
Report(p, file) == IF p = "manual" THEN Len(load_data(file)) ELSE reply

\* The locals of auto_scrape_task are gone when it returns.
Return(p) ==
    /\ pc' = [pc EXCEPT ![p] = "idle"]
    /\ all_new_events' = [all_new_events EXCEPT ![p] = <<>>]
    /\ existing_events' = [existing_events EXCEPT ![p] = EmptyDict]
    /\ existing_titles' = [existing_titles EXCEPT ![p] = {}]
    /\ next_index' = [next_index EXCEPT ![p] = 1]
    /\ new_count' = [new_count EXCEPT ![p] = 0]
    /\ broadcasts' = [broadcasts EXCEPT ![p] = <<>>]
    /\ reply' = Report(p, events_file')

\* The loop state st is where invocation p stops next: suspended in the
\* broadcast of the event it has just inserted, or through lines 172-176
\* and back to its caller.
Advance(p, st, found, titles) ==
    IF st.awaiting
    THEN /\ pc' = [pc EXCEPT ![p] = "broadcast"]
         /\ all_new_events' = [all_new_events EXCEPT ![p] = found]
         /\ existing_titles' = [existing_titles EXCEPT ![p] = titles]
         /\ existing_events' = [existing_events EXCEPT ![p] = st.existing_events]
         /\ next_index' = [next_index EXCEPT ![p] = st.next_index]
         /\ new_count' = [new_count EXCEPT ![p] = st.new_count]
         /\ broadcasts' = [broadcasts EXCEPT ![p] = st.broadcasts]
         /\ sent' = sent \cup {notification(st.broadcasts[Len(st.broadcasts)])}
         /\ UNCHANGED <<events_file, saves, reply>>
    ELSE /\ IF SaveNeeded(st.new_count)
            THEN /\ events_file' = save_data(events_file, st.existing_events)
                 /\ saves' = saves + 1
            ELSE UNCHANGED <<events_file, saves>>
         /\ Return(p)
         /\ UNCHANGED sent

\* The job queue fires, or a user sends /scrape: the invocation runs up to
\* the request of line 82.
Trigger(p) ==
    /\ pc[p] = "idle"
    /\ clock < MaxCycles
    /\ clock' = clock + 1
    /\ pc' = [pc EXCEPT ![p] = "fetch"]
    /\ UNCHANGED <<events_file, all_new_events, existing_events, existing_titles,
                   next_index, new_count, broadcasts, saves, sent, reply,
                   page, scraped, export_reply, fetched>>

\* Lines 82-83: the request came back, with status 200.
Succeeded(response) == response.raises = "none" /\ response.status = 200

\* The response arrives (or the request fails): lines 82-145, then lines
\* 151-160 and the loop up to its first suspension.
FetchReturn(p) ==
    /\ pc[p] = "fetch"
    /\ \E response \in CycleResponses : \E found \in {CycleScrape[response]} :
       /\ fetched' = IF Succeeded(response) THEN "ok" ELSE "failed"
       /\ IF found = <<>>                                        \* line 153
          THEN /\ UNCHANGED <<events_file, saves, sent>>
               /\ Return(p)
          ELSE \E loaded \in {load_data(events_file)} :
               \E titles \in {titles_of(loaded)} :
               \E st \in {run_loop(loop_start(loaded), found, titles, clock)} :
                  Advance(p, st, found, titles)
    /\ UNCHANGED <<clock, page, scraped, export_reply>>

\* broadcast_new_event and the sleep of line 170 are over: the loop goes on.
Resume(p) ==
    /\ pc[p] = "broadcast"
    /\ \E st \in {run_loop(after_broadcast(LoopStateOf(p)), all_new_events[p],
                            existing_titles[p], clock)} :
          Advance(p, st, all_new_events[p], existing_titles[p])
    /\ UNCHANGED <<clock, page, scraped, export_reply, fetched>>

NoResponse == Raise("none yet")

NotScraped == [done |-> FALSE, events |-> <<>>]

NoReply == [handler |-> "none"]

\* The bot starts with this in EVENTS_FILE, no invocation running, and (for
\* the parser on its own) this response to parse.
StartWith(file, response) ==
    /\ events_file = file
    /\ pc = [p \in Invocations |-> "idle"]
    /\ all_new_events = [p \in Invocations |-> <<>>]
    /\ existing_events = [p \in Invocations |-> EmptyDict]
    /\ existing_titles = [p \in Invocations |-> {}]
    /\ next_index = [p \in Invocations |-> 1]
    /\ new_count = [p \in Invocations |-> 0]
    /\ broadcasts = [p \in Invocations |-> <<>>]
    /\ saves = 0
    /\ sent = {}
    /\ reply = 0
    /\ clock = 0
    /\ page = response
    /\ scraped = NotScraped
    /\ export_reply = NoReply
    /\ fetched = "none"

\* Lines 426-427: the bot starts with an empty events.json.
Init == StartWith(EmptyDict, NoResponse)

Next == \E p \in Invocations : Trigger(p) \/ FetchReturn(p) \/ Resume(p)

Spec == Init /\ [][Next]_vars

\* The same program with its callers serialized: a cycle starts only when
\* no other is between its start and its return.
TriggerSerial(p) ==
    /\ \A q \in Invocations \ {p} : pc[q] = "idle"
    /\ Trigger(p)

NextSerial == \E p \in Invocations : TriggerSerial(p) \/ FetchReturn(p) \/ Resume(p)

SpecSerial == Init /\ [][NextSerial]_vars

-----------------------------------------------------------------------------
(* scrape_lego_news on a page of its own.                                  *)

ParseArticleKinds ==
    { Article(<<T_FreeLondon>>, <<>>, <<Link("/london")>>),
      Article(<<T_FreeGift>>, <<T_FreePolybag>>, <<Link("/gift")>>),
      Article(<<>>, <<>>, <<Link("/advert")>>),
      Article(<<T_FreeSmyths>>, <<>>, <<BareLink, Link("/smyths")>>),
      Article(<<>>, <<T_FreePolybag, T_Giveaway>>, <<>>) }

\* The kinds the longer pages are made of: all but the block without headings.
LongPageKinds == ParseArticleKinds \ {Article(<<>>, <<>>, <<Link("/advert")>>)}

ParseResponses ==
    {Respond(200, b) : b \in SeqsUpTo(LongPageKinds, MaxPageLen)}
        \cup ResponsesOver(SeqsUpTo(ParseArticleKinds, 2))

InitParse == \E response \in ParseResponses : StartWith(EmptyDict, response)

\* One call of scrape_lego_news, answered with page.
ScrapePage ==
    /\ ~ scraped.done
    /\ scraped' = [done |-> TRUE, events |-> scrape_lego_news(page)]
    /\ UNCHANGED <<events_file, pc, all_new_events, existing_events, existing_titles,
                   next_index, new_count, broadcasts, saves, sent, reply, clock,
                   page, export_reply, fetched>>

NextParse == ScrapePage

SpecParse == InitParse /\ [][NextParse]_vars

-----------------------------------------------------------------------------
(* The calendar exports.                                                   *)

\* The value of the n decimal digits of s that start at position i.
RECURSIVE Number(_, _, _)
Number(s, i, n) ==
    IF n = 0 THEN 0
    ELSE 10 * Number(s, i, n - 1)
            + (CHOOSE v \in 0..9 : <<"0","1","2","3","4","5","6","7","8","9">>[v + 1] = s[i + n - 1])

AllDigits(s, i, n) == i + n - 1 <= Len(s) /\ \A d \in 0..(n - 1) : IsDigit(s[i + d])

IsLeap(y) == (y % 4 = 0 /\ y % 100 # 0) \/ y % 400 = 0

DaysInMonth(y, m) ==
    IF m = 2 THEN (IF IsLeap(y) THEN 29 ELSE 28)
    ELSE IF m \in {4, 6, 9, 11} THEN 30 ELSE 31

\* s starts with YYYY-MM-DD, a date of the calendar.
IsIsoDate(s) ==
    /\ AllDigits(s, 1, 4) /\ AllDigits(s, 6, 2) /\ AllDigits(s, 9, 2)
    /\ s[5] = "-" /\ s[8] = "-"
    /\ Number(s, 1, 4) >= 1
    /\ Number(s, 6, 2) \in 1..12
    /\ Number(s, 9, 2) \in 1..DaysInMonth(Number(s, 1, 4), Number(s, 6, 2))

\* t is HH:MM or HH:MM:SS.
IsIsoTime(t) ==
    /\ Len(t) \in {5, 8}
    /\ AllDigits(t, 1, 2) /\ t[3] = ":" /\ AllDigits(t, 4, 2)
    /\ Number(t, 1, 2) < 24 /\ Number(t, 4, 2) < 60
    /\ Len(t) = 8 => t[6] = ":" /\ AllDigits(t, 7, 2) /\ Number(t, 7, 2) < 60

\* o is +HH:MM or -HH:MM.
IsIsoOffset(o) ==
    /\ Len(o) = 6 /\ o[1] \in {"+", "-"}
    /\ AllDigits(o, 2, 2) /\ o[4] = ":" /\ AllDigits(o, 5, 2)
    /\ Number(o, 2, 2) < 24 /\ Number(o, 5, 2) < 60

\* Where the UTC offset of s starts, if it has one: 0 if not.
OffsetStart(s) ==
    IF Len(s) >= 17 /\ s[Len(s) - 5] \in {"+", "-"} THEN Len(s) - 5 ELSE 0

\* datetime.fromisoformat(s) does not raise ValueError: s is YYYY-MM-DD, alone
\* or followed by one separator character, a time and possibly a UTC offset.
IsIsoFormat(s) ==
    /\ Len(s) >= 10
    /\ IsIsoDate(s)
    /\ Len(s) > 10 =>
          \E o \in {OffsetStart(s)} :
             IF o = 0 THEN IsIsoTime(SubSeq(s, 12, Len(s)))
             ELSE IsIsoTime(SubSeq(s, 12, o - 1)) /\ IsIsoOffset(SubSeq(s, o, Len(s)))

\* The datetime fromisoformat returns for such an s; tzinfo is "naive" when s
\* has no UTC offset.
fromisoformat(s) ==
    [year   |-> Number(s, 1, 4),
     month  |-> Number(s, 6, 2),
     day    |-> Number(s, 9, 2),
     hour   |-> IF Len(s) > 10 THEN Number(s, 12, 2) ELSE 0,
     minute |-> IF Len(s) > 10 THEN Number(s, 15, 2) ELSE 0,
     tzinfo |-> IF Len(s) > 10 /\ OffsetStart(s) # 0
                THEN SubSeq(s, OffsetStart(s), Len(s)) ELSE "naive"]

\* pytz's tz.localize(dt) raises ValueError for a datetime that has a tzinfo.
LocalizeRaises(dt) == dt.tzinfo # "naive"

\* uk_tz.localize(dt), lines 51-52 and 297-298.
localize(dt) == [dt EXCEPT !.tzinfo = "Europe/London"]

\* dt + timedelta(hours=h) for h < 24.
plus_hours(dt, h) ==
    IF dt.hour + h < 24 THEN [dt EXCEPT !.hour = @ + h]
    ELSE IF dt.day < DaysInMonth(dt.year, dt.month)
         THEN [dt EXCEPT !.hour = @ + h - 24, !.day = @ + 1]
    ELSE IF dt.month < 12
         THEN [dt EXCEPT !.hour = @ + h - 24, !.day = 1, !.month = @ + 1]
    ELSE [dt EXCEPT !.hour = @ + h - 24, !.day = 1, !.month = 1, !.year = @ + 1]

\* timedelta(hours=2) of lines 55 and 301.
EventHours == 2

\* timedelta(days=-1) of line 59.
AlarmDays == -1

\* The parsed and localized start of the event, lines 50-52 and 296-298; the
\* try block is left by an exception when there is none.
HasStart(event) ==
    /\ "date" \in DOMAIN event                     \* else KeyError
    /\ IsIsoFormat(event.date)                     \* else ValueError
    /\ ~ LocalizeRaises(fromisoformat(event.date)) \* else ValueError

start_of(event) == localize(fromisoformat(event.date))

\* icalendar's Component.add(name, value, parameters=None, encode=1) called
\* with these positional arguments raises TypeError when value is not given.
AddRaises(args) == Len(args) < 2

None == [kind |-> "None"]

\* The VEVENT of lines 43-67 with its VALARM.
SingleComponent(event, dtstart) ==
    [summary     |-> event.title,
     description |-> <<event.description, "\n\n", event.store>>,
     location    |-> event.location,
     dtstart     |-> dtstart,
     dtend       |-> plus_hours(dtstart, EventHours),
     alarms      |-> <<[trigger |-> AlarmDays, action |-> "DISPLAY"]>>,
     uid         |-> <<event.id, "@legoeventsuk">>]

Calendar(components) ==
    [kind |-> "calendar", prodid |-> "-//LEGO Events UK//EN", version |-> "2.0",
     components |-> components]

\* Lines 37-70. Line 58 calls ical_event.add('valarm') with no value: the
\* TypeError is caught at line 63 with everything else the try block raises.
create_ics_file(event) ==
    IF ~ HasStart(event) THEN None
    ELSE IF AddRaises(<<"valarm">>) THEN None
    ELSE Calendar(<<SingleComponent(event, start_of(event))>>)

\* Lines 248-271, for the message text command.
export_event(command) ==
    \E id \in {Tail(command)} :                         \* line 251
    \E events \in {load_data(events_file)} :
        IF id \notin Keys(events)
        THEN export_reply' = [handler |-> "export_event", kind |-> "text",
                              event_id |-> id, text |-> "not found"]
        ELSE \E ics_content \in {create_ics_file(Get(events, id))} :
             IF ics_content = None
             THEN export_reply' = [handler |-> "export_event", kind |-> "text",
                                   event_id |-> id, text |-> "cannot generate"]
             ELSE export_reply' = [handler |-> "export_event", kind |-> "document",
                                   event_id |-> id, document |-> ics_content]

\* Lines 291-302: the VEVENT of the batch export.
BatchComponent(key, event, dtstart) ==
    [summary     |-> event.title,
     description |-> <<event.description, "\n", event.store>>,
     location    |-> event.location,
     dtstart     |-> dtstart,
     dtend       |-> plus_hours(dtstart, EventHours),
     alarms      |-> <<>>,
     uid         |-> <<key, "@legoeventsuk">>]

\* Lines 287-309, one iteration: the components after the entry.
AddEntry(components, entry) ==
    IF "date" \in DOMAIN entry.value /\ entry.value.date = TBA
    THEN components                                            \* line 289
    ELSE IF ~ HasStart(entry.value) THEN components            \* lines 307-309
    ELSE Append(components,
                BatchComponent(entry.key, entry.value, start_of(entry.value)))

RECURSIVE AddEntries(_, _)
AddEntries(components, entries) ==
    IF entries = <<>> THEN components
    ELSE AddEntries(AddEntry(components, Head(entries)), Tail(entries))

\* Lines 273-322.
export_all_events ==
    \E events \in {load_data(events_file)} :
        IF events = EmptyDict                                  \* line 277
        THEN export_reply' = [handler |-> "export_all_events", kind |-> "text",
                              text |-> "nothing to export"]
        ELSE \E components \in {AddEntries(<<>>, events)} :
             IF Len(components) = 0                            \* line 311
             THEN export_reply' = [handler |-> "export_all_events", kind |-> "text",
                                   text |-> "no valid dates"]
             ELSE export_reply' = [handler |-> "export_all_events", kind |-> "document",
                                   count |-> Len(components),
                                   document |-> Calendar(components)]

\* The dates of the events an events.json may hold from before.
D_Iso == <<"2","0","2","5","-","1","2","-","0","5">>
D_IsoTime == <<"2","0","2","5","-","1","2","-","3","1","T","2","3",":","3","0">>
D_IsoOffset == <<"2","0","2","5","-","1","2","-","0","5","T","1","0",":","0","0",":","0","0","+","0","0",":","0","0">>
D_Synthesized == <<"2","0","2","6","-","D","e","c","e","m","b","e","r","-","5">>
D_NoSuchDay == <<"2","0","2","5","-","0","2","-","3","0">>

StoredDates == {D_Iso, D_IsoTime, D_IsoOffset, D_Synthesized, D_NoSuchDay, TBA}

StoredEvent(n, date) ==
    [title |-> T_FreeLondon, location |-> <<"U","K">>, date |-> date,
     date_display |-> date, store |-> "LEGO Store", description |-> "see link",
     source |-> "manual", url |-> "", id |-> <<"auto_", n>>, created_at |-> 0]

\* The same without its 'date' key.
Undated(n) ==
    [title |-> T_FreeLondon, location |-> <<"U","K">>,
     date_display |-> <<"pending">>, store |-> "LEGO Store",
     description |-> "see link", source |-> "manual", url |-> "",
     id |-> <<"auto_", n>>, created_at |-> 0]

StoredEvents(n) == {StoredEvent(n, d) : d \in StoredDates} \cup {Undated(n)}

StoredCatalogs ==
    {c \in SeqsUpTo([key : {<<"auto_", n>> : n \in 1..MaxStored},
                     value : UNION {StoredEvents(n) : n \in 1..MaxStored}],
                    MaxStored) :
        \A i \in 1..Len(c) : c[i].key = <<"auto_", i>> /\ c[i].value.id = c[i].key}

\* The bot starts with an events.json that is there already (line 426).
InitExport == \E catalog \in StoredCatalogs : StartWith(catalog, NoResponse)

\* A user sends /export_<id>.
ExportEvent ==
    /\ \E n \in 1..(MaxStored + 1) : export_event(<<"/export_", "auto_", n>>)
    /\ UNCHANGED <<events_file, pc, all_new_events, existing_events, existing_titles,
                   next_index, new_count, broadcasts, saves, sent, reply, clock,
                   page, scraped, fetched>>

\* A user sends /calendar.
ExportAll ==
    /\ export_all_events
    /\ UNCHANGED <<events_file, pc, all_new_events, existing_events, existing_titles,
                   next_index, new_count, broadcasts, saves, sent, reply, clock,
                   page, scraped, fetched>>

NextExport == ExportEvent \/ ExportAll

SpecExport == InitExport /\ [][NextExport]_vars

-----------------------------------------------------------------------------
(* The id assignment and the catalog, with the cycles serialized.          *)

\* The ids invocation p has assigned so far in its cycle, in the order the
\* candidates were processed.
AssignedIds(p) == [i \in 1..Len(broadcasts[p]) |-> broadcasts[p][i].id]

\* C1: in every merge cycle the assigned ids are unique within the resulting
\* catalog (none equals the id of an event that was in the catalog before
\* the cycle, none equals another id of the same cycle) and their numeric
\* suffixes strictly increase in candidate-processing order. With the cycles
\* serialized, events_file is the catalog the running cycle loaded.
C1_UniqueIncreasingIds ==
    \A p \in Invocations :
        pc[p] = "broadcast" =>
            \E ids \in {AssignedIds(p)} :
                /\ \A i \in 1..Len(ids) : ids[i] \notin Keys(events_file)
                /\ \A i, j \in 1..Len(ids) :
                       i < j => ids[i] # ids[j] /\ ids[i][2] < ids[j][2]

\* C2: merge is idempotent: from any catalog earlier cycles can produce, a
\* merge cycle followed by a second one with the same candidate list adds
\* nothing in the second run and leaves the catalog as the first run left it.
C2_MergeIdempotent ==
    (\A p \in Invocations : pc[p] = "idle") =>
        \A response \in CycleResponses :
            \E candidates \in {CycleScrape[response]} :
            \E first \in {merge_cycle(events_file, candidates, clock + 1)} :
            \E second \in {merge_cycle(first.catalog, candidates, clock + 2)} :
                second.added = <<>> /\ second.catalog = first.catalog

\* C3: the catalog is append-only: an id that maps to an event keeps mapping
\* to that same event in every later catalog state; no cycle removes,
\* replaces or mutates an entry, and no id is assigned a second time.
C3_AppendOnly ==
    [][\A k \in Keys(events_file) :
          k \in Keys(events_file') /\ Get(events_file', k) = Get(events_file, k)]_vars

-----------------------------------------------------------------------------
(* The cycle as the program runs it.                                       *)

\* C6: when the fetch fails (status other than 200, timeout, transport
\* error) the parser returns the empty list and the cycle returns at once as
\* a no-op: catalog unchanged, no save, no notification.
C6_FetchFailureNoOp ==
    [][\A p \in Invocations :
          (pc[p] = "fetch" /\ pc'[p] # "fetch" /\ fetched' = "failed") =>
              /\ pc'[p] = "idle"
              /\ events_file' = events_file
              /\ saves' = saves
              /\ sent' = sent]_vars

\* A failed fetch has ended a cycle over a catalog that holds events.
C6_FailedFetchOverCatalog ==
    /\ fetched = "failed"
    /\ events_file # EmptyDict
    /\ \A p \in Invocations : pc[p] = "idle"

\* Invocation p is between its catalog load (line 157) and its save (line 173).
InSpan(p) == pc[p] = "broadcast"

\* C7: no two catalog-mutating cycles run concurrently: the span between the
\* load and the save of one invocation never overlaps that of another.
C7_NoOverlap ==
    \A p, q \in Invocations : p # q => ~ (InSpan(p) /\ InSpan(q))

\* C8: a cycle writes the catalog at most once, in the step that ends it
\* (after every candidate has been processed), and it does so if and only if
\* it added at least one event; a cycle that added none sends no notification.
C8_SaveOnceAtEnd ==
    [][/\ (saves' # saves \/ events_file' # events_file) =>
              /\ saves' = saves + 1
              /\ \E p \in Invocations : pc[p] # "idle" /\ pc'[p] = "idle"
       /\ \A p \in Invocations :
              (pc[p] # "idle" /\ pc'[p] = "idle") =>
                  /\ (saves' = saves + 1) <=> (broadcasts[p] # <<>>)
                  /\ broadcasts[p] = <<>> => sent' = sent]_vars

\* One save has written two events.
C8_OneSaveTwoEvents ==
    /\ saves = 1
    /\ Len(events_file) = 2
    /\ \A p \in Invocations : pc[p] = "idle"

\* 'free' and 'lego' are both in the title, whatever the case of its letters.
FreeAndLego(title) ==
    \E low \in {lower(title)} : Contains(Free, low) /\ Contains(Lego, low)

\* C10: every candidate of the parser, hence every event a cycle adds to the
\* catalog, has a title with both "free" and "lego" in it, case-insensitively.
C10_TitlesFreeAndLego ==
    /\ \A i \in 1..Len(events_file) : FreeAndLego(events_file[i].value.title)
    /\ \A p \in Invocations :
          /\ \A i \in 1..Len(all_new_events[p]) :
                 FreeAndLego(all_new_events[p][i].title)
          /\ \A i \in 1..Len(existing_events[p]) :
                 FreeAndLego(existing_events[p][i].value.title)

\* A cycle has parsed candidates, added one and notified it.
C10_AddedAndNotified ==
    /\ sent # {}
    /\ \E p \in Invocations : all_new_events[p] # <<>> /\ existing_events[p] # EmptyDict

-----------------------------------------------------------------------------
(* The parser on its own.                                                  *)

\* The block has a heading that passes the filter, and parsing it raises
\* nothing.
Survives(article) ==
    /\ HasTitleElem(article)
    /\ FreeAndLego(title_elem(article))
    /\ ~ UrlRaises(article)

\* C9: the parser examines the first 5 blocks at most; a block that raises
\* is skipped and the later ones are still processed; the result is exactly
\* the candidates of the blocks with a heading that pass the filter, in
\* block order.
C9_FirstFiveInOrder ==
    (scraped.done /\ Succeeded(page)) =>
        \E examined \in {1..(IF Len(page.body) < 5 THEN Len(page.body) ELSE 5)} :
        \E kept \in {{i \in examined : Survives(page.body[i])}} :
            /\ Len(scraped.events) = Cardinality(kept)
            /\ \A i \in kept :
                   scraped.events[Cardinality({j \in kept : j <= i})]
                       = Candidate(page.body[i])

\* A page of six blocks has been parsed: one of the first four raises, the
\* block after it survives, and so would the sixth.
C9_RaisingBlockThenSurvivor ==
    /\ scraped.done
    /\ Succeeded(page)
    /\ Len(page.body) = 6
    /\ Survives(page.body[6])
    /\ \E i \in 1..4 :
          /\ HasTitleElem(page.body[i])
          /\ FreeAndLego(title_elem(page.body[i]))
          /\ UrlRaises(page.body[i])
          /\ Survives(page.body[i + 1])

-----------------------------------------------------------------------------
(* The exports.                                                            *)

\* The event has a date, other than "TBA", that parses as an ISO date.
HasIsoDate(event) ==
    /\ "date" \in DOMAIN event
    /\ event.date # TBA
    /\ IsIsoFormat(event.date)

\* C4: the batch export emits exactly one component for each catalog event
\* whose date is not "TBA" and parses as an ISO date, none for the others,
\* no alarm on any component, and fails if and only if no event survives.
C4_BatchExport ==
    export_reply.handler = "export_all_events" =>
        \E survivors \in {SelectSeq(events_file, LAMBDA entry : HasIsoDate(entry.value))} :
            IF Len(survivors) = 0
            THEN export_reply.kind = "text"
            ELSE /\ export_reply.kind = "document"
                 /\ \E components \in {export_reply.document.components} :
                       /\ Len(components) = Len(survivors)
                       /\ \A i \in 1..Len(components) :
                              /\ components[i].uid = <<survivors[i].key, "@legoeventsuk">>
                              /\ components[i].alarms = <<>>

\* C5: the single-event export fails whenever the date is "TBA", missing or
\* not parseable as an ISO date, and otherwise returns a document with
\* exactly one component whose end is its start plus 2 hours and which has
\* exactly one alarm, triggered 1 day before the start.
C5_SingleExport ==
    (export_reply.handler = "export_event"
        /\ export_reply.event_id \in Keys(events_file)) =>
        IF ~ HasIsoDate(Get(events_file, export_reply.event_id))
        THEN export_reply.kind = "text"
        ELSE /\ export_reply.kind = "document"
             /\ \E components \in {export_reply.document.components} :
                   /\ Len(components) = 1
                   /\ components[1].dtend = plus_hours(components[1].dtstart, 2)
                   /\ Len(components[1].alarms) = 1
                   /\ components[1].alarms[1].trigger = -1

-----------------------------------------------------------------------------
(* The classification of a heading.                                        *)

\* Words of a heading, in a page handed to the parser on its own.
MaxWords == 3

HeadingStart == <<"F","r","e","e"," ","L","E","G","O">>

HeadingWords ==
    { <<"S","m","y","t","h","s">>,
      <<"S","M","Y","T","H","S"," ","t","o","y","s">>,
      <<"j","o","h","n"," ","l","e","w","i","s">>,
      <<"L","O","N","D","O","N">>,
      <<"L","e","e","d","s">>,
      <<"G","l","a","s","g","o","w">>,
      <<"g","i","f","t">> }

RECURSIVE JoinWords(_)
JoinWords(ws) ==
    IF ws = <<>> THEN <<>> ELSE <<" ">> \o Head(ws) \o JoinWords(Tail(ws))

\* The headings the site may give: "Free LEGO" and up to MaxWords words.
Headings == {HeadingStart \o JoinWords(ws) : ws \in SeqsUpTo(HeadingWords, MaxWords)}

\* The site answers with a page of one article under such a heading.
InitClassify ==
    \E heading \in Headings :
        StartWith(EmptyDict, Respond(200, <<Article(<<heading>>, <<>>, <<Link("/news")>>)>>))

SpecClassify == InitClassify /\ [][NextParse]_vars

\* The city occurs in the title, whatever the case of the letters.
Occurs(city, title) == Contains(lower(city), lower(title))

SmythsLabel == <<"U","K"," ","S","m","y","t","h","s"," ","S","t","o","r","e","s">>

\* C11: the store of a candidate is "Smyths Toys" when its heading contains
\* "smyths", else "John Lewis" when it contains "john lewis", else "LEGO
\* Store"; its location is the first city of the list that occurs in the
\* heading, whatever the store, and without a city the Smyths label for a
\* Smyths heading and "UK" otherwise; all of it case-insensitively.
C11_Classification ==
    scraped.done =>
        \A n \in 1..Len(scraped.events) :
            \E ev \in {scraped.events[n]} : \E low \in {lower(ev.title)} :
                /\ (ev.store = "Smyths Toys") <=> Contains(Smyths, low)
                /\ (ev.store = "John Lewis") <=>
                       (~ Contains(Smyths, low) /\ Contains(JohnLewis, low))
                /\ (ev.store = "LEGO Store") <=>
                       (~ Contains(Smyths, low) /\ ~ Contains(JohnLewis, low))
                /\ \A c \in 1..7 :
                       (Occurs(cities[c], ev.title)
                            /\ \A b \in 1..(c - 1) : ~ Occurs(cities[b], ev.title))
                           => ev.location = cities[c]
                /\ (\A c \in 1..7 : ~ Occurs(cities[c], ev.title)) =>
                       ev.location = (IF Contains(Smyths, low) THEN SmythsLabel
                                      ELSE <<"U","K">>)

\* A heading with "smyths" in capitals, then Leeds, then London has been
\* classified: London is first in the list.
C11_SmythsLeedsLondon ==
    /\ scraped.done
    /\ Len(scraped.events) = 1
    /\ scraped.events[1].store = "Smyths Toys"
    /\ Occurs(cities[6], scraped.events[1].title)
    /\ scraped.events[1].location = cities[1]

-----------------------------------------------------------------------------
(* From the heading to the exports: the cycles, serialized, over an        *)
(* events.json that may hold an event from before, and the two exports.    *)

\* What events.json may hold when the bot starts (line 426).
PipelineCatalogs == {EmptyDict, <<[key |-> <<"auto_", 1>>, value |-> StoredEvent(1, D_Iso)]>>}

InitPipeline == \E catalog \in PipelineCatalogs : StartWith(catalog, NoResponse)

NextPipeline == NextSerial \/ NextExport

SpecPipeline == InitPipeline /\ [][NextPipeline]_vars

\* d reads "{year}-{month name}-{day}": four digits, a month name in any
\* case, one or two digits.
IsSynthesized(d) ==
    \E m \in 1..12 : \E k \in 1..2 : \E n \in {Len(MonthNames[m])} :
        /\ Len(d) = 4 + 1 + n + 1 + k
        /\ \A i \in 1..4 : IsDigit(d[i])
        /\ d[5] = "-"
        /\ lower(SubSeq(d, 6, 5 + n)) = MonthNames[m]
        /\ d[6 + n] = "-"
        /\ \A i \in (7 + n)..Len(d) : IsDigit(d[i])

\* The catalog entries the scraper made whose date was synthesized.
SynthesizedEntries ==
    SelectSeq(events_file, LAMBDA entry :
        entry.value.source = "auto_scrape" /\ IsSynthesized(entry.value.date))

\* C12: a date the parser synthesizes from a heading match is stored in the
\* catalog as it was synthesized, year-month name-day, and nothing fails on
\* the way; the single export of such an event fails; the batch export
\* leaves the event out and still answers as it would without it (a document
\* of the other events, or its one "nothing valid" text), naming no failure
\* of the event.
C12_SynthesizedDateDeferred ==
    /\ \A i \in 1..Len(events_file) : \E ev \in {events_file[i].value} :
           (ev.source = "auto_scrape" /\ event_date(ev.title) # <<>>) =>
               ev.date = event_date(ev.title) /\ IsSynthesized(ev.date)
    /\ \A p \in Invocations : \A i \in 1..Len(all_new_events[p]) :
           \E ev \in {all_new_events[p][i]} :
               ev.date = TBA \/ IsSynthesized(ev.date)
    /\ \A i \in 1..Len(SynthesizedEntries) : \E entry \in {SynthesizedEntries[i]} :
           /\ (export_reply.handler = "export_event"
                   /\ export_reply.event_id = entry.key) =>
                  export_reply.kind = "text"
           /\ export_reply.handler = "export_all_events" =>
                  /\ export_reply.kind \in {"text", "document"}
                  /\ export_reply.kind = "document" =>
                         \A c \in 1..Len(export_reply.document.components) :
                             export_reply.document.components[c].uid[1] # entry.key
    /\ export_reply.handler = "export_all_events" =>
           ((export_reply.kind = "document") <=>
               (\E i \in 1..Len(events_file) :
                    /\ events_file[i] \notin {SynthesizedEntries[j] : j \in 1..Len(SynthesizedEntries)}
                    /\ HasIsoDate(events_file[i].value)))

\* A scraped event with a synthesized date is in the catalog, and the batch
\* export has answered with a document.
C12_BatchWithoutSynthesized ==
    /\ Len(SynthesizedEntries) > 0
    /\ export_reply.handler = "export_all_events"
    /\ export_reply.kind = "document"

-----------------------------------------------------------------------------
(* Titles in the catalog, and what was broadcast.                          *)

\* C13: after any sequence of merge cycles from the empty catalog no two
\* events of the catalog have the same title, also when the candidate list
\* of one cycle holds a title more than once.
C13_NoDuplicateTitles ==
    \A i, j \in 1..Len(events_file) :
        i # j => events_file[i].value.title # events_file[j].value.title

\* C14: every event broadcast under an id is, once no cycle is in progress,
\* in the persisted catalog under that id with the same title, whatever the
\* sequence or interleaving of scheduled and manual cycles.
C14_BroadcastPersisted ==
    (\A p \in Invocations : pc[p] = "idle") =>
        \A sending \in sent :
            /\ sending.id \in Keys(events_file)
            /\ Get(events_file, sending.id).title = sending.title

====
